---- MODULE Spec2Model ----
(***************************************************************************)
(* A model of serapis/extract.py: PageRequest (direct fetch with retry,    *)
(* html2text conversion with a BeautifulSoup fallback, sentence / variant  *)
(* extraction, feature and meta scraping) and DiffbotRequest (article API).*)
(*                                                                         *)
(* Strings the code splits, strips or tests a prefix of are sequences of   *)
(* elements; strings it only joins are TLA+ strings.  None is the record   *)
(* None, and a string that may be None is the record Str(w).               *)
(***************************************************************************)
EXTENDS Integers, Sequences, FiniteSets, TLC

VARIABLES
    kind,       \* "page" (PageRequest) or "diffbot" (DiffbotRequest)
    url,        \* self.url
    term,       \* self.term
    retry,      \* config.request_retry
    pc,         \* position of the running call
    attempts,   \* request_page: local `attempts`
    got,        \* request_page: local `response` of the latest attempt
    ret,        \* value returned by request_page
    gets,       \* number of requests.get calls made
    sleeps,     \* number of time.sleep calls made
    log,        \* lines written to the logger, in order
    response,   \* self.response
    html,       \* self.html
    raw,        \* parse_response: local `raw`
    primary,    \* outcome of html_parser.handle: "", "returned", "raised"
    fallback,   \* outcome of the BeautifulSoup path: "", "returned", "raised"
    soup,       \* soup.get_text() of the fallback path
    paras,      \* extract_sentences: paragraphs still to visit
    doc,        \* extract_sentences: local list `doc`
    out,        \* value returned by the latest extract_sentences call
    qualified,  \* sentences the qualifier accepted during the running call
    calls,      \* number of extract_sentences calls on this object
    sentences,  \* self.sentences
    variants,   \* self.variants
    text,       \* self.text
    features,   \* self.features
    author,     \* self.author
    title       \* self.title

vars == <<kind, url, term, retry, pc, attempts, got, ret, gets, sleeps, log,
          response, html, raw, primary, fallback, soup, paras, doc, out,
          qualified, calls, sentences, variants, text, features, author, title>>

reqVars == <<attempts, got, ret, gets, sleeps>>
convVars == <<raw, primary, fallback, soup>>
extrVars == <<paras, doc, out, qualified, calls, sentences, variants>>
metaVars == <<author, title>>

----------------------------------------------------------------------------
(* Bounds of the model *)

\* largest positive config.request_retry explored
MaxRetry == 3
\* config.request_retry ranges over -NegRetry .. MaxRetry
NegRetry == 2
\* values of `attempts` at or below -MaxBelow are kept as -MaxBelow
MaxBelow == 3
\* longest page text handed to extract_sentences
MaxLen == 2
\* most candidate sentences the segmenter returns for one paragraph
MaxSents == 1
\* most extract_sentences calls on one object
MaxCalls == 2
\* most elements of a page given to get_meta
MaxTags == 3
\* most objects in a decoded API body
MaxObjs == 2

\* counters of get and sleep calls stop counting here
CountCap == MaxRetry + NegRetry + 1

----------------------------------------------------------------------------
(* Values *)

None == [none |-> TRUE]
\* a string where None may stand instead
Str(w) == [str |-> w]

Urls == {"u1", "u2"}
Terms == {"", "t"}

Elem(k, a, v, c, t) == [kind |-> k, attr |-> a, value |-> v, content |-> c, tail |-> t]
\* a newline character
NL == Elem("nl", "", "", <<>>, <<>>)
\* any other character of text
X == Elem("chr", "", "", <<>>, <<>>)
\* <meta a="v" content="c"t
Meta(a, v, c, t) == Elem("meta", a, v, c, t)
\* <title>c</title>
TitleTag(c) == Elem("title", "", "", c, <<>>)
\* <open>inner</close>, inner already squashed
Tag(open, inner, close) == Elem("tag", open, inner, <<>>, close)

SeqsUpTo(S, n) == UNION {[1..k -> S] : k \in 0..n}

\* page texts: what a converter returns, what a caller passes
Texts == SeqsUpTo({X, NL}, MaxLen)

\* pages a server or the article API returns
Htmls == { <<X>>,
           <<Tag("b", "t", <<"b">>), NL, NL, X>>,
           <<Meta("name", "author", <<"J">>, <<" ", "/", ">">>), NL,
             TitleTag(<<" ", "T">>), NL, X>> }

Statuses == {200, 404}

Sentences == {"a", "b"}
Cleans == {"c1", "c2"}
VariantNames == {"v1"}

LogLine(level) == [level |-> level, url |-> url]
Errors == SelectSeq(log, LAMBDA l : l.level = "error")
Infos == SelectSeq(log, LAMBDA l : l.level = "info")

----------------------------------------------------------------------------
(* PageRequest.request_page *)

\* requests.Response.__bool__ / __nonzero__ is Response.ok: the status is no
\* 4xx or 5xx
Truthy(r) == r # None /\ ~(400 <= r.status /\ r.status < 600)

\* hasattr(response, "text")
HasText(r) == r.hasText

\* line 60: response and hasattr(response, "text")
Usable(r) == Truthy(r) /\ HasText(r)

\* a loop that makes one turn too many
LoopTestOneMore(a) == a >= 0

\* line 55: while attempts
LoopTest(a) == a # 0

\* line 65: attempts -= 1.  A Python int has no lower end; -MaxBelow stands
\* for every value at or below it: all of them pass the loop test and stay
\* in that class when decremented
Decrement(a) == IF a - 1 < -MaxBelow THEN -MaxBelow ELSE a - 1

\* one more call counted; CountCap stands for "CountCap or more"
Count(n) == IF n < CountCap THEN n + 1 ELSE n

\* what requests.get can do: raise (None), or return a response
GetOutcomes ==
    {None} \cup [status : Statuses, hasText : BOOLEAN, text : {Str(h) : h \in Htmls}]

\* lines 55-66: one turn of the loop
Attempt(r) ==
    /\ kind = "page"
    /\ pc = "request"
    /\ LoopTest(attempts)
    /\ gets' = Count(gets)
    /\ got' = r
    /\ IF Usable(r)
       THEN /\ response' = r
            /\ ret' = r
            /\ pc' = "returned"
            /\ UNCHANGED <<attempts, sleeps>>
       ELSE /\ attempts' = Decrement(attempts)
            /\ sleeps' = Count(sleeps)
            /\ UNCHANGED <<response, ret, pc>>
    /\ UNCHANGED <<kind, url, term, retry, log, html, convVars, extrVars,
                   text, features, metaVars>>

\* lines 55, 68-69: the loop ends without a response
Exhausted ==
    /\ kind = "page"
    /\ pc = "request"
    /\ ~LoopTest(attempts)
    /\ log' = Append(log, LogLine("error"))
    /\ ret' = None
    /\ pc' = "returned"
    /\ UNCHANGED <<kind, url, term, retry, attempts, got, gets, sleeps,
                   response, html, convVars, extrVars, text, features, metaVars>>

request_page ==
    \/ \E r \in GetOutcomes : Attempt(r)
    \/ Exhausted

\* lines 182-190, 54: a fresh object
Blank(k, u, t, n) ==
    /\ kind = k
    /\ url = u
    /\ term = t
    /\ retry = n
    /\ attempts = n
    /\ got = None
    /\ ret = None
    /\ gets = 0
    /\ sleeps = 0
    /\ log = <<>>
    /\ response = None
    /\ raw = <<>>
    /\ primary = ""
    /\ fallback = ""
    /\ soup = <<>>
    /\ paras = <<>>
    /\ doc = <<>>
    /\ out = ""
    /\ qualified = <<>>
    /\ calls = 0
    /\ sentences = <<>>
    /\ variants = {}
    /\ text = Str("")
    /\ features = {}
    /\ author = None
    /\ title = None

InitRequest ==
    \E u \in Urls, n \in (-NegRetry)..MaxRetry :
        Blank("page", u, "t", n) /\ pc = "request" /\ html = Str(<<>>)

SpecRequest == InitRequest /\ [][request_page]_vars

\* each requests.get ends (timeout=10) and each sleep ends, so a turn of the
\* loop that can be taken is taken
FairSpecRequest == SpecRequest /\ WF_vars(request_page)

----------------------------------------------------------------------------
(* PageRequest.extract_sentences *)

RECURSIVE SplitParas(_)
\* line 81: page_text.split('\n\n')
SplitParas(s) ==
    LET hits == {i \in 1..(Len(s) - 1) : s[i] = NL /\ s[i + 1] = NL}
    IN  IF hits = {}
        THEN <<s>>
        ELSE LET i == CHOOSE h \in hits : \A g \in hits : h <= g
             IN  <<SubSeq(s, 1, i - 1)>> \o SplitParas(SubSeq(s, i + 2, Len(s)))

RECURSIVE Join(_)
\* line 93: " ".join(doc)
Join(list) ==
    IF list = <<>> THEN ""
    ELSE IF Len(list) = 1 THEN list[1]
    ELSE list[1] \o " " \o Join(Tail(list))

\* what the qualifier and the cleaner answer for one candidate sentence:
\* qualify_sentence's verdict and clean_sentence's (s_clean, variants)
Answers ==
    {[ok |-> FALSE, s_clean |-> "", variants |-> {}]}
        \cup [ok : {TRUE}, s_clean : Cleans, variants : SUBSET VariantNames]

\* line 84: qualify_sentence(sentence)
Qualifies(a) == a.ok

CleanForms(ss) == {ss[i].s_clean : i \in 1..Len(ss)}

\* a test that forgets the normalized forms already kept
RetainedNoDedup(ss, a) == a.variants # {}

\* line 87: variants and s_clean not in [s['s_clean'] for s in self.sentences]
Retained(ss, a) == a.variants # {} /\ a.s_clean \notin CleanForms(ss)

\* a doc that takes only the sentences kept in self.sentences
DocStepRetainedOnly(d, ss, sentence, a) ==
    IF Qualifies(a) /\ Retained(ss, a) THEN Append(d, sentence) ELSE d

\* lines 84-85: doc.append(sentence) for every qualified sentence
DocStep(d, ss, sentence, a) ==
    IF Qualifies(a) THEN Append(d, sentence) ELSE d

\* lines 84-92: one candidate sentence
SentenceStep(st, sentence, a) ==
    LET keep == Qualifies(a) /\ Retained(st.sentences, a)
    IN  [ doc |-> DocStep(st.doc, st.sentences, sentence, a),
          variants |-> IF keep THEN st.variants \cup a.variants ELSE st.variants,
          sentences |-> IF keep
                        THEN Append(st.sentences, [s |-> sentence, s_clean |-> a.s_clean])
                        ELSE st.sentences ]

RECURSIVE ParagraphStep(_, _, _, _)
\* line 83: for sentence in paragraph_to_sentences(paragraph, self.term)
ParagraphStep(st, cands, ans, i) ==
    IF i > Len(cands) THEN st
    ELSE ParagraphStep(SentenceStep(st, cands[i], ans[i]), cands, ans, i + 1)

\* the sentences of cands the qualifier accepted, in order
Accepted(cands, ans) ==
    LET idx == {i \in 1..Len(cands) : ans[i].ok}
        F[i \in 0..Len(cands)] ==
            IF i = 0 THEN <<>>
            ELSE IF i \in idx THEN Append(F[i - 1], cands[i]) ELSE F[i - 1]
    IN  F[Len(cands)]

\* line 80-81: extract_sentences entered with page_text
EnterExtract(page_text) ==
    /\ paras' = SplitParas(page_text)
    /\ doc' = <<>>
    /\ qualified' = <<>>
    /\ calls' = calls + 1

\* lines 81-92: one paragraph; is_english says eng, the segmenter returns
\* cands, the qualifier and the cleaner answer ans
ExtractParagraph ==
    /\ pc \in {"parse_extract", "call_extract"}
    /\ paras # <<>>
    /\ paras' = Tail(paras)
    /\ \E eng \in BOOLEAN :
          IF ~eng
          THEN UNCHANGED <<doc, sentences, variants, qualified>>
          ELSE \E cands \in SeqsUpTo(Sentences, MaxSents) :
               \E ans \in [1..Len(cands) -> Answers] :
                  LET st == ParagraphStep(
                                [doc |-> doc, variants |-> variants,
                                 sentences |-> sentences], cands, ans, 1)
                  IN  /\ doc' = st.doc
                      /\ sentences' = st.sentences
                      /\ variants' = st.variants
                      /\ qualified' = qualified \o Accepted(cands, ans)
    /\ UNCHANGED <<kind, url, term, retry, pc, reqVars, log, response, html,
                   convVars, out, calls, text, features, metaVars>>

----------------------------------------------------------------------------
(* PageRequest.get_html_features *)

\* lines 50-51, 129; a glyph outside ASCII is written as its code point

HighlightTags == {"em", "i", "b", "strong", "span"}
OPENING_QUOTES == {"\"", "'", "&quot;", "U+201C", "&ldquo;", "U+2018", "&lsquo;", "U+00AB", "&laquo;",
                   "U+2039", "&lsaquo;", "U+201E", "&bdquo;", "U+201A", "&sbquo;"}
CLOSING_QUOTES == {"'", "&quot;", "U+201D", "&rdquo;", "U+2019", "&rsquo;", "U+00BB", "&raquo;",
                   "U+203A", "&rsaquo;", "U+201C", "&ldquo;", "U+2018", "&lsquo;"}

\* re.IGNORECASE on the squashed term
Fold(w) == IF w = "T" THEN "t" ELSE w

\* lines 123-135; a dict is the set of its items
get_html_features(h, t, old) ==
    IF t = "" THEN old
    ELSE { <<"highlighted",
             \E i \in 1..Len(h) :
                /\ h[i].kind = "tag"
                /\ h[i].attr \in HighlightTags
                /\ h[i].tail = <<h[i].attr>>
                /\ Fold(h[i].value) = Fold(t)>>,
           <<"quotes",
             \E i \in 1..Len(h) :
                /\ h[i].kind = "tag"
                /\ h[i].attr \in OPENING_QUOTES
                /\ Len(h[i].tail) = 1 /\ h[i].tail[1] \in CLOSING_QUOTES
                /\ Fold(h[i].value) = Fold(t)>> }

----------------------------------------------------------------------------
(* PageRequest.get_meta *)

\* lines 100-104, in the order written
PropPairs == << <<"name", "author">>,
                <<"property", "og:author">>,
                <<"property", "article:author">> >>

\* a dict display: a later value of a key replaces the earlier one
DictOf(pairs) ==
    LET keys == {pairs[i][1] : i \in 1..Len(pairs)}
        last(k) == CHOOSE i \in 1..Len(pairs) :
                      /\ pairs[i][1] = k
                      /\ \A j \in 1..Len(pairs) : pairs[j][1] = k => j <= i
    IN  {<<k, pairs[last(k)][2]>> : k \in keys}

prop_names == DictOf(PropPairs)

\* the orders prop_names.items() may come in
ItemOrders ==
    {o \in [1..Cardinality(prop_names) -> prop_names] :
        \A i, j \in 1..Cardinality(prop_names) : i # j => o[i] # o[j]}

RECURSIVE Lines(_)
\* the lines of a page: "." of a pattern stays within one
Lines(h) ==
    LET hits == {i \in 1..Len(h) : h[i] = NL}
    IN  IF hits = {}
        THEN <<h>>
        ELSE LET i == CHOOSE x \in hits : \A y \in hits : x <= y
             IN  <<SubSeq(h, 1, i - 1)>> \o Lines(SubSeq(h, i + 1, Len(h)))

\* line 108: the tail ` [^>]>` after the quoted content
TailMatches(t) == Len(t) = 3 /\ t[1] = " " /\ t[2] # ">" /\ t[3] = ">"

\* line 108: one tag against the pattern of (prop, value); the content is
\* quoted, not empty, and holds no quote of its own kind
TagMatches(e, prop, value) ==
    /\ e.kind = "meta"
    /\ e.attr = prop
    /\ e.value = value
    /\ e.content # <<>>
    /\ TailMatches(e.tail)

RECURSIVE Strip(_, _)
\* str.strip(chars)
Strip(w, chars) ==
    IF w # <<>> /\ Head(w) \in chars THEN Strip(Tail(w), chars)
    ELSE IF w # <<>> /\ w[Len(w)] \in chars THEN Strip(SubSeq(w, 1, Len(w) - 1), chars)
    ELSE w

\* lines 109-110 on one line of the page: "<meta.+" is greedy, so of the tags
\* of one line the last that matches is the one captured
LineAuthors(line, prop, value) ==
    LET hits == {i \in 1..Len(line) : TagMatches(line[i], prop, value)}
    IN  IF hits = {} THEN <<>>
        ELSE LET i == CHOOSE x \in hits : \A y \in hits : y <= x
             IN  <<Strip(<<"\"">> \o line[i].content \o <<"\"">>, {"'", "\""})>>

RECURSIVE FindAuthors(_, _, _)
\* lines 109-110: re.findall over the page
FindAuthors(lines, prop, value) ==
    IF lines = <<>> THEN <<>>
    ELSE LineAuthors(Head(lines), prop, value) \o FindAuthors(Tail(lines), prop, value)

RECURSIVE Authors(_, _)
\* lines 105-110
Authors(h, order) ==
    IF order = <<>> THEN <<>>
    ELSE FindAuthors(Lines(h), Head(order)[1], Head(order)[2]) \o Authors(h, Tail(order))

StartsWith(w, prefix) ==
    Len(w) >= Len(prefix) /\ SubSeq(w, 1, Len(prefix)) = prefix

\* line 113: author and not author.startswith("http")
Reasonable(a) == a # <<>> /\ ~StartsWith(a, <<"h", "t", "t", "p">>)

\* lines 113-114
get_author(h, order) ==
    LET authors == SelectSeq(Authors(h, order), Reasonable)
    IN  IF authors # <<>> THEN Str(authors[1]) ELSE None

\* lines 116-117
get_title(h) ==
    LET title_tags == SelectSeq(h, LAMBDA e : e.kind = "title" /\ e.content # <<>>)
    IN  IF title_tags # <<>> THEN Str(Strip(title_tags[1].content, {" ", "\n"})) ELSE None

\* lines 95-117
get_meta(h) ==
    \E order \in ItemOrders :
        /\ author' = get_author(h, order)
        /\ title' = get_title(h)

\* lines 157-173; save is config.save_html
structured(save) ==
    LET structure ==
            { <<"term", term>>, <<"url", url>>, <<"doc", text>>,
              <<"features", features>>, <<"variants", variants>>,
              <<"sentences", sentences>>, <<"author", author>>,
              <<"title", title>> }
    IN  IF save THEN structure \cup {<<"html", html>>} ELSE structure

----------------------------------------------------------------------------
(* PageRequest.__init__ and PageRequest.parse_response *)

\* lines 193-195: self.response = self.request_page(); if self.response
AfterRequest ==
    /\ kind = "page"
    /\ pc = "returned"
    /\ response' = ret
    /\ pc' = IF Truthy(ret) THEN "parse" ELSE "failed"
    /\ UNCHANGED <<kind, url, term, retry, reqVars, log, html, convVars,
                   extrVars, text, features, metaVars>>

RECURSIVE Collapse(_)
\* line 152: re.sub(r"\n+", "\n\n", ...)
Collapse(s) ==
    IF s = <<>> THEN <<>>
    ELSE IF Head(s) # NL THEN <<Head(s)>> \o Collapse(Tail(s))
    ELSE IF Len(s) > 1 /\ s[2] = NL THEN Collapse(Tail(s))
    ELSE <<NL, NL>> \o Collapse(Tail(s))

\* a fallback that is reported as an error
FallbackLevelError == "error"

\* line 148: log.info
FallbackLevel == "info"

\* lines 142-153: the conversion, up to the call of extract_sentences
Convert ==
    /\ kind = "page"
    /\ pc = "parse"
    /\ html' = response.text
    /\ \/ \E t \in Texts :
            /\ primary' = "returned"
            /\ raw' = t
            /\ EnterExtract(t)
            /\ pc' = "parse_extract"
            /\ UNCHANGED <<fallback, soup, log>>
       \/ /\ primary' = "raised"
          /\ log' = Append(log, LogLine(FallbackLevel))
          /\ \/ \E g \in Texts :
                  /\ fallback' = "returned"
                  /\ soup' = g
                  /\ raw' = Collapse(g)
                  /\ EnterExtract(Collapse(g))
                  /\ pc' = "parse_extract"
             \/ /\ fallback' = "raised"
                /\ pc' = "raised"
                /\ UNCHANGED <<soup, raw, paras, doc, qualified, calls>>
    /\ UNCHANGED <<kind, url, term, retry, reqVars, response, out, sentences,
                   variants, text, features, metaVars>>

\* lines 93, 153-155: extract_sentences returns into parse_response
ParseReturn ==
    /\ kind = "page"
    /\ pc = "parse_extract"
    /\ paras = <<>>
    /\ out' = Join(doc)
    /\ text' = Str(Join(doc))
    /\ features' = get_html_features(html.str, term, features)
    /\ get_meta(html.str)
    /\ pc' = "done"
    /\ UNCHANGED <<kind, url, term, retry, reqVars, log, response, html,
                   convVars, paras, doc, qualified, calls, sentences, variants>>

\* lines 71-93 called on an object made with run=False
CallExtract ==
    /\ pc = "idle"
    /\ calls < MaxCalls
    /\ \E page_text \in Texts : EnterExtract(page_text)
    /\ pc' = "call_extract"
    /\ UNCHANGED <<kind, url, term, retry, reqVars, log, response, html,
                   convVars, out, sentences, variants, text, features, metaVars>>

\* line 93: that call returns
CallReturn ==
    /\ pc = "call_extract"
    /\ paras = <<>>
    /\ out' = Join(doc)
    /\ pc' = "idle"
    /\ UNCHANGED <<kind, url, term, retry, reqVars, log, response, html,
                   convVars, paras, doc, qualified, calls, sentences, variants,
                   text, features, metaVars>>

----------------------------------------------------------------------------
(* DiffbotRequest *)

\* the objects of a decoded body: obj.get(key) is None for a missing key
Objs == [text : {Str("T")},
         html : {None, Str(<<Tag("b", "t", <<"b">>), NL, NL, X>>)},
         author : {None, Str(<<"A">>)},
         title : {Str(<<"T", "i">>)}]

\* what requests.get(...).json() can do: raise, fail to decode, or return a
\* body with or without the key 'objects'
ApiOutcomes ==
    {[fault |-> "raise"], [fault |-> "decode"], [error |-> "x"]}
        \cup [objects : SeqsUpTo(Objs, MaxObjs)]

\* lines 213-214 (and 217-219, 193 when the call fails): the one API call
DiffbotGet ==
    /\ kind = "diffbot"
    /\ pc = "request"
    /\ gets' = Count(gets)
    /\ \E o \in ApiOutcomes :
          IF "fault" \in DOMAIN o
          THEN /\ log' = Append(log, LogLine("error"))
               /\ ret' = None
               /\ response' = None
               /\ pc' = "failed"
          ELSE /\ response' = o
               /\ pc' = "received"
               /\ UNCHANGED <<log, ret>>
    /\ UNCHANGED <<kind, url, term, retry, attempts, got, sleeps, html,
                   convVars, extrVars, text, features, metaVars>>

\* a validation that lets an empty list through
ValidNoEmptyCheck(body) == "objects" \in DOMAIN body

\* lines 215-216: the two assertions
Valid(body) == "objects" \in DOMAIN body /\ body.objects # <<>>

\* lines 215-221, 193-194: validation, return, and the constructor's store
DiffbotValidate ==
    /\ kind = "diffbot"
    /\ pc = "received"
    /\ IF Valid(response)
       THEN /\ ret' = response
            /\ pc' = "validated"
            /\ UNCHANGED <<log, response>>
       ELSE /\ log' = Append(log, LogLine("error"))
            /\ ret' = None
            /\ response' = None
            /\ pc' = "failed"
    /\ UNCHANGED <<kind, url, term, retry, attempts, got, gets, sleeps, html,
                   convVars, extrVars, text, features, metaVars>>

\* an extractor that takes the last object
LastObject(body) == body.objects[Len(body.objects)]

\* line 224: self.response['objects'][0]
FirstObject(body) == body.objects[1]

\* lines 224-230: the fields of the object, then extract_sentences(self.html);
\* None has no split
DiffbotParse ==
    /\ kind = "diffbot"
    /\ pc = "validated"
    /\ LET obj == FirstObject(response)
       IN  /\ text' = obj.text
           /\ html' = obj.html
           /\ author' = obj.author
           /\ title' = obj.title
           /\ IF obj.html = None
              THEN /\ pc' = "raised"
                   /\ UNCHANGED <<paras, doc, qualified, calls>>
              ELSE /\ EnterExtract(obj.html.str)
                   /\ pc' = "parse_extract"
    /\ UNCHANGED <<kind, url, term, retry, reqVars, log, response, convVars,
                   out, sentences, variants, features>>

\* lines 93, 230-231: extract_sentences returns, its value is dropped
DiffbotReturn ==
    /\ kind = "diffbot"
    /\ pc = "parse_extract"
    /\ paras = <<>>
    /\ out' = Join(doc)
    /\ features' = get_html_features(html.str, term, features)
    /\ pc' = "done"
    /\ UNCHANGED <<kind, url, term, retry, reqVars, log, response, html,
                   convVars, paras, doc, qualified, calls, sentences, variants,
                   text, metaVars>>

----------------------------------------------------------------------------
(* The extractors, constructed with run=True *)

Init ==
    \/ \E u \in Urls, t \in Terms, n \in 0..1 :
          Blank("page", u, t, n) /\ pc = "request" /\ html = Str(<<>>)
    \/ \E u \in Urls, t \in Terms :
          Blank("diffbot", u, t, 1) /\ pc = "request" /\ html = Str(<<>>)

Next ==
    \/ request_page
    \/ AfterRequest
    \/ Convert
    \/ ExtractParagraph
    \/ ParseReturn
    \/ DiffbotGet
    \/ DiffbotValidate
    \/ DiffbotParse
    \/ DiffbotReturn

Spec == Init /\ [][Next]_vars

----------------------------------------------------------------------------
(* extract_sentences called again and again on one object *)

\* lines 175-190 with run=False: nothing is requested or parsed
InitCalls ==
    Blank("page", "u1", "t", 1) /\ pc = "idle" /\ html = Str(<<>>)

NextCalls ==
    \/ CallExtract
    \/ ExtractParagraph
    \/ CallReturn

SpecCalls == InitCalls /\ [][NextCalls]_vars

----------------------------------------------------------------------------
(* get_meta on its own *)

MetaConventions == { <<"name", "author">>, <<"property", "og:author">>,
                     <<"property", "article:author">>, <<"name", "keywords">> }
MetaContents == { <<"J">>, <<"K">>, <<"h", "t", "t", "p", ":">>, <<"'">> }
MetaTails == { <<" ", "/", ">">>, <<">">> }

MetaElems ==
    {Meta(c[1], c[2], w, t) : c \in MetaConventions, w \in MetaContents, t \in MetaTails}
        \cup {TitleTag(<<" ", "T", "\n">>), TitleTag(<<"U">>), NL}

InitMeta ==
    \E h \in SeqsUpTo(MetaElems, MaxTags) :
        Blank("page", "u1", "t", 1) /\ pc = "meta" /\ html = Str(h)

\* lines 95-117 called with the page
MetaCall ==
    /\ pc = "meta"
    /\ get_meta(html.str)
    /\ pc' = "done"
    /\ UNCHANGED <<kind, url, term, retry, reqVars, log, response, html,
                   convVars, extrVars, text, features>>

SpecMeta == InitMeta /\ [][MetaCall]_vars

----------------------------------------------------------------------------
(* Claims about PageRequest.request_page *)

\* C1: with request_retry = N > 0 and N failed attempts in a row, request_page
\* returns None, logs exactly one error line (naming the url), and has made
\* exactly N GET attempts; no further attempt follows the N-th failure.
C1_ExhaustionAfterRetryAttempts ==
    retry > 0 =>
        /\ gets <= retry
        /\ (pc = "request" /\ sleeps = retry) => ~LoopTest(attempts)
        /\ (pc = "returned" /\ sleeps = retry) =>
                /\ ret = None
                /\ response = None
                /\ gets = retry
                /\ Len(Errors) = 1
                /\ Errors[1].url = url
                /\ Len(log) = 1

C1_Witness ==
    /\ retry = MaxRetry
    /\ pc = "returned"
    /\ sleeps = retry
    /\ ret = None
    /\ Len(Errors) = 1

\* C8: the first attempt whose response has a `text` attribute, whatever its
\* status, ends request_page: that response is stored and returned, no
\* attempt and no sleep follows it, and no error is logged.  Stated for a
\* positive request_retry.
C8_TextualResponseSucceeds ==
    (retry > 0 /\ got # None /\ HasText(got)) =>
        /\ pc = "returned"
        /\ ret = got
        /\ response = got
        /\ sleeps = gets - 1
        /\ Len(Errors) = 0

\* C10: for every integer request_retry, request_page returns.
C10_RequestPageTerminates == <>(pc = "returned")

----------------------------------------------------------------------------
(* Claims about the extractors *)

SFields(ss) == [i \in 1..Len(ss) |-> ss[i].s]

RECURSIVE IsSubseq(_, _)
IsSubseq(a, b) ==
    IF a = <<>> THEN TRUE
    ELSE IF b = <<>> THEN FALSE
    ELSE IF Head(a) = Head(b) THEN IsSubseq(Tail(a), Tail(b))
    ELSE IsSubseq(a, Tail(b))

IsSuffix(a, b) ==
    Len(a) <= Len(b) /\ SubSeq(b, Len(b) - Len(a) + 1, Len(b)) = a

\* C2 as stated: after a successful direct fetch the record's doc is the
\* space-joined 's' fields of the record's sentences, in order.
C2_DocIsJoinOfSentences ==
    (kind = "page" /\ pc = "done") =>
        \A save \in BOOLEAN :
            <<"doc", Str(Join(SFields(sentences)))>> \in structured(save)

\* C2 amended: after a successful direct fetch the record's doc is the
\* space-joined sequence of every sentence the qualifier accepted, in the
\* order met, kept in sentences or not; the 's' fields of sentences are a
\* subsequence of those sentences.
C2_DocIsJoinOfQualified ==
    (kind = "page" /\ pc = "done") =>
        /\ \A save \in BOOLEAN :
              <<"doc", Str(Join(qualified))>> \in structured(save)
        /\ IsSubseq(SFields(sentences), qualified)

C2_Witness ==
    /\ kind = "page"
    /\ pc = "done"
    /\ Len(qualified) = 2
    /\ Len(sentences) = 1

\* C3: no two entries of self.sentences share an s_clean, whatever the
\* cleaner answers and however often extract_sentences is called; entries are
\* only appended, each new one with an s_clean no earlier entry has, and
\* variants grow only in a step that appends.
C3_NoDuplicateNormalized ==
    /\ [](\A i, j \in 1..Len(sentences) :
              i # j => sentences[i].s_clean # sentences[j].s_clean)
    /\ [][ /\ Len(sentences') >= Len(sentences)
           /\ SubSeq(sentences', 1, Len(sentences)) = sentences
           /\ \A i \in (Len(sentences) + 1)..Len(sentences') :
                 \A j \in 1..(i - 1) : sentences'[j].s_clean # sentences'[i].s_clean
           /\ variants \subseteq variants'
           /\ (variants' # variants) => Len(sentences') > Len(sentences) ]_vars

C3_Witness ==
    /\ pc = "idle"
    /\ calls = MaxCalls
    /\ Len(sentences) = Cardinality(Cleans)
    /\ Len(doc) > 1

\* C4: a run of an extractor never lets an exception out.
C4_NoExceptionPropagates == pc # "raised"

\* C5: the BeautifulSoup path runs exactly when html2text raised; when it
\* returns, the text given to extract_sentences is its output (newline runs
\* made two newlines), one info line and no error line is logged.
C5_FallbackIffPrimaryRaised ==
    kind = "page" =>
        /\ (fallback # "") <=> (primary = "raised")
        /\ (primary = "raised") <=> (Len(Infos) = 1)
        /\ Len(Infos) <= 1
        /\ fallback = "returned" =>
              /\ raw = Collapse(soup)
              /\ Len(Errors) = 0
              /\ Len(log) = 1
              /\ calls = 1
              /\ pc \in {"parse_extract", "done"}
              /\ pc = "parse_extract" => IsSuffix(paras, SplitParas(Collapse(soup)))

C5_Witness ==
    /\ kind = "page"
    /\ pc = "done"
    /\ fallback = "returned"
    /\ soup # <<>>
    /\ raw # soup
    /\ Len(Infos) = 1

\* C6: a DiffbotRequest makes one API call and never retries; it passes
\* REQUESTED, RECEIVED, VALIDATED, EXTRACTED in that order; a call that
\* raises, a body that does not decode, a body without objects or with none
\* sends it to FAILED, where request_page has returned None, one error line
\* names the url, no response is stored and nothing was parsed; FAILED is
\* entered from REQUESTED or RECEIVED only.
C6_DiffbotStates ==
    /\ [](kind = "diffbot" =>
            /\ gets <= 1
            /\ sleeps = 0
            /\ pc # "request" => gets = 1
            /\ pc = "failed" =>
                  /\ ret = None
                  /\ response = None
                  /\ Len(log) = 1
                  /\ Len(Errors) = 1
                  /\ Errors[1].url = url
                  /\ calls = 0
                  /\ sentences = <<>>
                  /\ text = Str("")
            /\ pc \in {"validated", "parse_extract", "done"} =>
                  /\ "objects" \in DOMAIN response
                  /\ Len(response.objects) >= 1
                  /\ ret = response
                  /\ log = <<>>)
    /\ [][kind = "diffbot" =>
            /\ pc' = "received" => pc \in {"request", "received"}
            /\ pc' = "validated" => pc \in {"received", "validated"}
            /\ pc' = "parse_extract" => pc \in {"validated", "parse_extract"}
            /\ pc' = "done" => pc \in {"parse_extract", "done"}
            /\ pc' = "failed" => pc \in {"request", "received", "failed"}
            /\ (pc = "received" /\ ("objects" \notin DOMAIN response
                                      \/ response.objects = <<>>))
                  => pc' = "failed" ]_vars

C6_Witness ==
    /\ kind = "diffbot"
    /\ pc = "failed"
    /\ gets = 1
    /\ Len(Errors) = 1

\* C7: a finished DiffbotRequest holds the first object's author, title,
\* html and text as they came, features computed from that html, and
\* sentences taken from the paragraphs of that html.
C7_FirstObjectPassesThrough ==
    (kind = "diffbot" /\ pc \in {"parse_extract", "done"}) =>
        LET obj == response.objects[1]
        IN  /\ text = obj.text
            /\ html = obj.html
            /\ author = obj.author
            /\ title = obj.title
            /\ IsSuffix(paras, SplitParas(obj.html.str))
            /\ IsSubseq(SFields(sentences), qualified)
            /\ pc = "done" =>
                  /\ features = get_html_features(obj.html.str, term, {})
                  /\ \A save \in BOOLEAN :
                        /\ <<"doc", obj.text>> \in structured(save)
                        /\ <<"author", obj.author>> \in structured(save)
                        /\ <<"title", obj.title>> \in structured(save)
                        /\ save => <<"html", obj.html>> \in structured(save)

C7_Witness ==
    /\ kind = "diffbot"
    /\ pc = "done"
    /\ Len(response.objects) = 2
    /\ response.objects[1] # response.objects[2]
    /\ author # None
    /\ sentences # <<>>

----------------------------------------------------------------------------
(* Claim about PageRequest.get_meta *)

\* C9: author is a candidate of one of the three conventions (name=author,
\* property=og:author, property=article:author) that is not empty and does
\* not start with http, and None only when no convention has such a candidate.
C9_AuthorFromThreeConventions ==
    pc = "done" =>
        LET found == UNION { LET a == FindAuthors(Lines(html.str),
                                                  PropPairs[i][1], PropPairs[i][2])
                             IN  {a[k] : k \in 1..Len(a)}
                             : i \in 1..Len(PropPairs) }
            good == {a \in found : Reasonable(a)}
        IN  IF good = {} THEN author = None
            ELSE author # None /\ author.str \in good

====
